---------------------------- MODULE Spec2Model ----------------------------
(* Fetch-and-render lifecycle of the CrimeAPP front end:                   *)
(*   index entry point  (root.render under React.StrictMode)               *)
(*   App.js             (useState / useEffect fetch chain / three-way JSX) *)
(*   CrimeCard.js       (placeholder counters derived from OBJECTID)       *)
EXTENDS Integers, Sequences, FiniteSets, TLC

(* ---------------------------------------------------------------------- *)
(* Bounds and input domains                                                *)
(* ---------------------------------------------------------------------- *)

\* longest data array a response carries
MaxLen == 2

\* identifiers (OBJECTID) carried by the records of a response
Ids == {1, 104, 230}

\* HTTP statuses the endpoint answers with
Statuses == {200, 500}

\* the effect body can run at most twice (mount, StrictMode replay)
Fetches == {1, 2}

RECURSIVE SeqsUpTo(_, _)
SeqsUpTo(S, n) ==
    IF n = 0 THEN {<<>>}
    ELSE LET shorter == SeqsUpTo(S, n - 1)
         IN  shorter \cup {Append(s, x) : s \in {t \in shorter : Len(t) = n - 1}, x \in S}

\* an incident record; only the identifier takes part in computation
Records == [OBJECTID : Ids]

DataSeqs == SeqsUpTo(Records, MaxLen)

(* ---------------------------------------------------------------------- *)
(* JavaScript values                                                       *)
(* ---------------------------------------------------------------------- *)

\* a property that is absent from the decoded object reads as undefined
Undefined == "undefined"

\* the value of json.data / of the crimes state: an array or undefined
Arr(s) == [isArray |-> TRUE, items |-> s]
NoArr == [isArray |-> FALSE, items |-> <<>>]

\* JavaScript truthiness of a string-or-undefined value
Truthy(v) == v # Undefined /\ v # ""

\* JavaScript %: the result takes the sign of the dividend
JsRem(a, b) == IF a >= 0 THEN a % b ELSE 0 - ((0 - a) % b)

\* response bodies: undecodable text, the JSON literal null, or an object
Malformed == [kind |-> "malformed", error |-> Undefined, data |-> NoArr]
JsonNull == [kind |-> "null", error |-> Undefined, data |-> NoArr]
Obj(e, d) == [kind |-> "object", error |-> e, data |-> d]

Bodies ==
    {Malformed, JsonNull}
    \cup {Obj(e, NoArr) : e \in {Undefined, "", "db down"}}
    \cup {Obj(Undefined, Arr(d)) : d \in DataSeqs}
    \cup {Obj("db down", Arr(<<>>))}

\* Response.ok
Ok(status) == status >= 200 /\ status <= 299

NoResponse == [status |-> 0, body |-> Malformed]

(* ---------------------------------------------------------------------- *)
(* Rendering (pure functions of the view state)                            *)
(* ---------------------------------------------------------------------- *)

UpvoteModulus == 100
CommentModulus == 5

\* CrimeCard with the "+ 1" of the comment counter dropped
CrimeCardNoOffset(crime) ==
    [upvote   |-> JsRem(crime.OBJECTID, UpvoteModulus),
     comments |-> JsRem(crime.OBJECTID, CommentModulus)]

\* CrimeCard: the two placeholder counters of one item view
CrimeCard(crime) ==
    [upvote   |-> JsRem(crime.OBJECTID, UpvoteModulus),
     comments |-> JsRem(crime.OBJECTID, CommentModulus) + 1]

\* the map walking the array back to front
MapCardsReversed(items) ==
    [i \in 1..Len(items) |->
        [key |-> items[Len(items) + 1 - i].OBJECTID,
         card |-> CrimeCard(items[Len(items) + 1 - i])]]

\* crimes.map(crime => <CrimeCard key={crime.OBJECTID} crime={crime} />)
MapCards(items) ==
    [i \in 1..Len(items) |->
        [key |-> items[i].OBJECTID, card |-> CrimeCard(items[i])]]

Blank == [mode |-> "None", items |-> <<>>]

\* crimes.length on undefined throws while rendering
RenderThrows(c, l) == ~l /\ ~c.isArray

\* the JSX conditional in <main>
RenderApp(c, l) ==
    IF l THEN [mode |-> "Loading", items |-> <<>>]
    ELSE IF Len(c.items) = 0 THEN [mode |-> "Empty", items |-> <<>>]
    ELSE [mode |-> "Populated", items |-> MapCards(c.items)]

(* ---------------------------------------------------------------------- *)
(* State                                                                   *)
(* ---------------------------------------------------------------------- *)

VARIABLES
    build,      \* "development" or "production" bundle
    mounted,    \* App is in the tree
    crimes,     \* useState([])
    loading,    \* useState(true)
    dirty,      \* a state update is waiting for a render
    view,       \* what the last committed render shows
    effectRan,  \* the mount effects have been flushed
    pc,         \* per fetch: position in the promise chain
    resp,       \* per fetch: the response it got
    err,        \* per fetch: message of the rejection travelling down the chain
    running,    \* fetch whose handlers run in the current microtask burst, or 0
    logged,     \* console.error diagnostics, oldest first
    last,       \* fetch whose chain completed most recently, or 0
    defunct     \* per fetch: setter calls made after App was unmounted

vars == <<build, mounted, crimes, loading, dirty, view, effectRan, pc, resp,
          err, running, logged, last, defunct>>

Init ==
    /\ build \in {"development", "production"}
    /\ mounted = TRUE
    /\ crimes = Arr(<<>>)
    /\ loading = TRUE
    /\ dirty = FALSE
    /\ view = RenderApp(Arr(<<>>), TRUE)
    /\ effectRan = FALSE
    /\ pc = [f \in Fetches |-> "idle"]
    /\ resp = [f \in Fetches |-> NoResponse]
    /\ err = [f \in Fetches |-> <<>>]
    /\ running = 0
    /\ logged = <<>>
    /\ last = 0
    /\ defunct = [f \in Fetches |-> 0]

(* ---------------------------------------------------------------------- *)
(* State setters                                                           *)
(* ---------------------------------------------------------------------- *)

\* setCrimes(v) called from the chain of fetch f
setCrimes(f, v) ==
    /\ crimes' = IF mounted THEN v ELSE crimes
    /\ dirty' = (dirty \/ mounted)
    /\ defunct' = [defunct EXCEPT ![f] = @ + (IF mounted THEN 0 ELSE 1)]
    /\ UNCHANGED loading

\* setLoading(v) called from the chain of fetch f
setLoading(f, v) ==
    /\ loading' = IF mounted THEN v ELSE loading
    /\ dirty' = (dirty \/ mounted)
    /\ defunct' = [defunct EXCEPT ![f] = @ + (IF mounted THEN 0 ELSE 1)]
    /\ UNCHANGED crimes

(* ---------------------------------------------------------------------- *)
(* Operations                                                              *)
(* ---------------------------------------------------------------------- *)

\* times the effect body runs when App mounts: StrictMode replays mount
\* effects once in a development bundle and does nothing in production
EffectRuns(b) == IF b = "development" THEN 2 ELSE 1

\* useEffect(() => { fetch('/api/crimes')... }, []) flushed after mount
UseEffect ==
    /\ mounted /\ ~effectRan /\ running = 0
    /\ effectRan' = TRUE
    /\ pc' = [f \in Fetches |-> IF f <= EffectRuns(build) THEN "pending" ELSE "idle"]
    /\ UNCHANGED <<build, mounted, crimes, loading, dirty, view, resp, err,
                   running, logged, last, defunct>>

\* fetch() rejects: no response at all (network failure)
FetchReject(f) ==
    /\ pc[f] = "pending" /\ running = 0
    /\ pc' = [pc EXCEPT ![f] = "rejected"]
    /\ err' = [err EXCEPT ![f] = <<"TypeError", "Failed to fetch">>]
    /\ running' = f
    /\ UNCHANGED <<build, mounted, crimes, loading, dirty, view, effectRan,
                   resp, logged, last, defunct>>

\* .then(res => { if (!res.ok) throw new Error(`HTTP ${res.status}`);
\*                return res.json(); })
ThenRes(f, status, body) ==
    /\ pc[f] = "pending" /\ running = 0
    /\ resp' = [resp EXCEPT ![f] = [status |-> status, body |-> body]]
    /\ IF ~Ok(status)
       THEN /\ pc' = [pc EXCEPT ![f] = "rejected"]
            /\ err' = [err EXCEPT ![f] = <<"HTTP", ToString(status)>>]
            /\ running' = f
       ELSE /\ pc' = [pc EXCEPT ![f] = "decoding"]
            /\ UNCHANGED <<err, running>>
    /\ UNCHANGED <<build, mounted, crimes, loading, dirty, view, effectRan,
                   logged, last, defunct>>

\* res.json() rejects on a body that is not JSON; the second then is skipped
JsonReject(f) ==
    /\ pc[f] = "decoding" /\ running = 0
    /\ resp[f].body.kind = "malformed"
    /\ pc' = [pc EXCEPT ![f] = "rejected"]
    /\ err' = [err EXCEPT ![f] = <<"SyntaxError">>]
    /\ running' = f
    /\ UNCHANGED <<build, mounted, crimes, loading, dirty, view, effectRan,
                   resp, logged, last, defunct>>

\* .then(json => { if (json.error) throw new Error(json.error);
\*                 setCrimes(json.data); })
ThenJson(f) ==
    /\ pc[f] = "decoding" /\ running = 0
    /\ resp[f].body.kind # "malformed"
    /\ running' = f
    /\ LET json == resp[f].body IN
       IF json.kind = "null"
       THEN /\ pc' = [pc EXCEPT ![f] = "rejected"]
            /\ err' = [err EXCEPT ![f] = <<"TypeError", "Cannot read properties of null">>]
            /\ UNCHANGED <<crimes, loading, dirty, defunct>>
       ELSE IF Truthy(json.error)
       THEN /\ pc' = [pc EXCEPT ![f] = "rejected"]
            /\ err' = [err EXCEPT ![f] = <<json.error>>]
            /\ UNCHANGED <<crimes, loading, dirty, defunct>>
       ELSE /\ pc' = [pc EXCEPT ![f] = "fulfilled"]
            /\ setCrimes(f, json.data)
            /\ UNCHANGED err
    /\ UNCHANGED <<build, mounted, view, effectRan, resp, logged, last>>

\* a catch handler that logs but leaves the records as they are
CatchKeepsRecords(f) ==
    /\ pc[f] = "rejected" /\ running = f
    /\ logged' = Append(logged, err[f])
    /\ pc' = [pc EXCEPT ![f] = "caught"]
    /\ UNCHANGED <<build, mounted, crimes, loading, dirty, defunct, view,
                   effectRan, resp, err, running, last>>

\* .catch(err => { console.error(err); setCrimes([]); })
Catch(f) ==
    /\ pc[f] = "rejected" /\ running = f
    /\ logged' = Append(logged, err[f])
    /\ setCrimes(f, Arr(<<>>))
    /\ pc' = [pc EXCEPT ![f] = "caught"]
    /\ UNCHANGED <<build, mounted, view, effectRan, resp, err, running, last>>

\* the spinner switched off at the end of the success path only
FinallyOnSuccessOnly(f) ==
    /\ pc[f] \in {"fulfilled", "caught"} /\ running = f
    /\ IF pc[f] = "fulfilled"
       THEN setLoading(f, FALSE)
       ELSE UNCHANGED <<crimes, loading, dirty, defunct>>
    /\ pc' = [pc EXCEPT ![f] = "done"]
    /\ running' = 0
    /\ last' = f
    /\ UNCHANGED <<build, mounted, view, effectRan, resp, err, logged>>

\* .finally(() => setLoading(false))
Finally(f) ==
    /\ pc[f] \in {"fulfilled", "caught"} /\ running = f
    /\ setLoading(f, FALSE)
    /\ pc' = [pc EXCEPT ![f] = "done"]
    /\ running' = 0
    /\ last' = f
    /\ UNCHANGED <<build, mounted, view, effectRan, resp, err, logged>>

\* React re-renders App once the handlers of the current task have returned;
\* a render that throws takes the whole tree down (there is no error boundary)
Render ==
    /\ mounted /\ dirty /\ running = 0
    /\ dirty' = FALSE
    /\ IF RenderThrows(crimes, loading)
       THEN mounted' = FALSE /\ view' = Blank
       ELSE mounted' = TRUE /\ view' = RenderApp(crimes, loading)
    /\ UNCHANGED <<build, crimes, loading, effectRan, pc, resp, err, running,
                   logged, last, defunct>>

\* a teardown that aborts the requests still in flight
UnmountAborting ==
    /\ mounted /\ running = 0
    /\ mounted' = FALSE
    /\ view' = Blank
    /\ dirty' = FALSE
    /\ pc' = [f \in Fetches |-> IF pc[f] \in {"pending", "decoding"} THEN "aborted" ELSE pc[f]]
    /\ UNCHANGED <<build, crimes, loading, effectRan, resp, err, running,
                   logged, last, defunct>>

\* the host tears the root down; nothing in the effect returns a cleanup,
\* so requests in flight are left alone
Unmount ==
    /\ mounted /\ running = 0
    /\ mounted' = FALSE
    /\ view' = Blank
    /\ dirty' = FALSE
    /\ UNCHANGED <<build, crimes, loading, effectRan, pc, resp, err, running,
                   logged, last, defunct>>

Next ==
    \/ UseEffect
    \/ \E f \in Fetches : FetchReject(f)
    \/ \E f \in Fetches, s \in Statuses, b \in Bodies : ThenRes(f, s, b)
    \/ \E f \in Fetches : JsonReject(f)
    \/ \E f \in Fetches : ThenJson(f)
    \/ \E f \in Fetches : Catch(f)
    \/ \E f \in Fetches : Finally(f)
    \/ Render
    \/ Unmount

Spec == Init /\ [][Next]_vars

(* ---------------------------------------------------------------------- *)
(* Vocabulary of the properties                                            *)
(* ---------------------------------------------------------------------- *)

Settled(f) == pc[f] = "done"

\* the chain of f ended in the catch handler: no response, non-2xx status,
\* undecodable or null body, or a non-empty error field
Failed(f) ==
    /\ Settled(f)
    /\ \/ ~Ok(resp[f].status)
       \/ resp[f].body.kind # "object"
       \/ Truthy(resp[f].body.error)

\* 2xx, decodable object body, no error message, data is an array
SucceededWith(f, d) ==
    /\ Settled(f)
    /\ Ok(resp[f].status)
    /\ resp[f].body.kind = "object"
    /\ ~Truthy(resp[f].body.error)
    /\ resp[f].body.data = Arr(d)

Contains(msg, text) == \E i \in DOMAIN msg : msg[i] = text

EmptyView == [mode |-> "Empty", items |-> <<>>]

Modes == {"Loading", "Empty", "Populated"}

(* ---------------------------------------------------------------------- *)
(* Properties                                                              *)
(* ---------------------------------------------------------------------- *)

\* C1: while App is mounted, loading is true (and the Loading mode is shown)
\* in every state before a fetch chain has completed, and loading is false in
\* every state after one has completed, whichever way it went.
LoadingUntilSettled ==
    mounted =>
        /\ (\A f \in Fetches : ~Settled(f)) => (loading /\ view.mode = "Loading")
        /\ (\E f \in Fetches : Settled(f)) => ~loading

\* C1 witness: a fetch settled through the decode-error path and the
\* spinner is off
LoadingClearedAfterDecodeError ==
    \E f \in Fetches :
        /\ mounted /\ Settled(f) /\ ~loading
        /\ Ok(resp[f].status) /\ resp[f].body.kind = "malformed"

\* C2: a settled fetch whose response had a non-success status and a body
\* with an error field leaves the empty-state display and has that error
\* text in a logged diagnostic.
ErrorFieldLogged ==
    \A f \in Fetches :
        (/\ Settled(f)
         /\ resp[f].status # 0 /\ ~Ok(resp[f].status)
         /\ resp[f].body.kind = "object" /\ Truthy(resp[f].body.error))
        => /\ (mounted /\ running = 0 /\ last = f) => RenderApp(crimes, loading) = EmptyView
           /\ \E i \in DOMAIN logged : Contains(logged[i], resp[f].body.error)

SuccessRendersAll ==
    \A f \in Fetches : \A d \in DataSeqs :
        (mounted /\ running = 0 /\ last = f /\ SucceededWith(f, d) /\ Len(d) >= 1)
        => /\ crimes = Arr(d)
           /\ ~loading
           /\ ~dirty =>
                /\ view.mode = "Populated"
                /\ Len(view.items) = Len(d)
                /\ \A i \in 1..Len(d) : view.items[i].key = d[i].OBJECTID

\* C4 witness: two records with different identifiers are on screen
TwoCardsShown ==
    \E f \in Fetches : \E d \in DataSeqs :
        /\ mounted /\ running = 0 /\ last = f /\ SucceededWith(f, d)
        /\ Len(d) = 2 /\ d[1].OBJECTID # d[2].OBJECTID
        /\ ~dirty /\ view.mode = "Populated" /\ Len(view.items) = 2

\* C5: the fetch sequence is started at most once in the lifetime of App.
FetchOnce == Cardinality({f \in Fetches : pc[f] # "idle"}) <= 1

\* C6: while App is mounted the displayed mode never leaves Empty and never
\* leaves Populated.
ModeOneWay ==
    [][mounted' =>
         /\ view.mode = "Empty" => view'.mode = "Empty"
         /\ view.mode = "Populated" => view'.mode = "Populated"]_vars

LoadingBetweenSetters ==
    \A f \in Fetches :
        (mounted /\ pc[f] \in {"fulfilled", "caught"}) => view.mode = "Loading"

\* C9: tearing App down never cancels a fetch (a pending fetch leaves the
\* pending position only by settling), and every handler that runs after the
\* teardown calls its setter on the unmounted view.
NoCancellation ==
    [][/\ \A f \in Fetches :
            pc[f] = "pending" => pc'[f] \in {"pending", "rejected", "decoding"}
       /\ \A f \in Fetches :
            pc[f] = "decoding" => pc'[f] \in {"decoding", "rejected", "fulfilled"}
       /\ \A f \in Fetches :
            (~mounted /\ pc'[f] # pc[f] /\ pc'[f] \in {"fulfilled", "caught", "done"})
            => defunct'[f] = defunct[f] + 1]_vars

\* C9 witness: App was torn down while the fetch was pending and both of its
\* setters have since been called on the unmounted view
SettersCalledAfterUnmount ==
    \E f \in Fetches : ~mounted /\ Settled(f) /\ defunct[f] = 2

\* C10: while App is mounted, crimes is an array and the renderer shows one
\* of the three modes.
RecordsIsSequence ==
    mounted => (crimes.isArray /\ view.mode \in Modes)

==========================================================================
